---------------------------- MODULE Spec2Model ----------------------------
(***************************************************************************)
(* The agent control loop of strix: BaseAgent.agent_loop and the methods   *)
(* it calls (src/strix/agents/base_agent.py), run against the AgentState   *)
(* record, the model backend and the tool dispatcher.                      *)
(*                                                                         *)
(* One action is one stretch of the coroutine between two suspension       *)
(* points: the await of llm.generate, the await of the tool-dispatch task  *)
(* and the sleep of _wait_for_input.  cancel_current_execution is called   *)
(* from outside the loop and may come at any time.                         *)
(*                                                                         *)
(* AgentState (strix/agents/state.py), process_tool_invocations            *)
(* (strix/tools) and LLM (strix/llm) are not part of the sources at hand;  *)
(* their operators below follow the design document.                       *)
(***************************************************************************)
EXTENDS Integers, Sequences, FiniteSets, TLC

VARIABLES
    non_interactive,       \* BaseAgent.non_interactive (config)
    state,                 \* BaseAgent.state, the AgentState record
    near_limit,            \* the policy value of is_approaching_max_iterations
    pc,                    \* where agent_loop stands
    current_task,          \* BaseAgent._current_task: "None" or "tool_task"
    tool_task,             \* the asyncio task of the tool-dispatch unit
    conversation_history,  \* the local of _execute_actions handed to the unit
    retval,                \* what agent_loop returned
    raised,                \* what agent_loop raised
    sandbox_mode,          \* the STRIX_SANDBOX_MODE toggle of the process
    llm_calls,             \* number of llm.generate calls made so far
    events,                \* number of non-empty outcomes the environment gave
    llm_failure,           \* the latest failed llm.generate call, if any
    last,                  \* what the last stretch of the loop observed
    now                    \* the clock, in polling quanta

vars == << non_interactive, state, near_limit, pc, current_task, tool_task,
           conversation_history, retval, raised, sandbox_mode, llm_calls, events,
           llm_failure, last, now >>

-----------------------------------------------------------------------------
(* Bounds of the model *)

\* max_iterations, as the configuration gives it
MaxBudget == 5

\* outcomes other than an empty response the environment may produce
MaxEvents == 1

\* largest number of tool invocations in one batch
MaxBatch == 2

\* polling quanta (0.5 s sleeps) before the waiting deadline elapses
WaitQuanta == 1

\* the loop is followed one iteration past the budget
IterCap == MaxBudget + 1

-----------------------------------------------------------------------------
(* Values *)

None == [none |-> TRUE]

\* None where the value, when present, is a string
NoHandle == "None"

Empty == [empty |-> TRUE]

Success == [success |-> TRUE]

Failure(m) == [success |-> FALSE, error |-> m]

Msg(role, content) == [role |-> role, content |-> content]

\* messages of LLMRequestFailedError
FailureMessages == {"rate limited", "connection refused"}

\* the classes caught at base_agent.py:207
RecoverableErrors == {"RuntimeError", "ValueError", "TypeError"}

\* a class the loop does not catch
UnclassifiedErrors == {"KeyError"}

\* the exceptions of the caught classes that the backend and the tools raise
RecoverableExceptions ==
    [class : RecoverableErrors, message : {"tool failed"}]

\* str(e) of an exception
str(e) == e.message

TASK == "task"

URGENT == "URGENT: You are approaching the maximum iteration limit."

CRITICAL == "CRITICAL: You have only 3 iterations left!"

CORRECTIVE == "You MUST NOT respond with empty messages."

RESUMING == "Waiting timeout reached. Resuming execution."

TASK_COMPLETED == "Task completed. I'm now waiting for follow-up instructions or new tasks."

ERROR_OCCURRED == "An error occurred. I'm now waiting for new instructions."

CANCELLED == "Execution was cancelled. I'm now waiting for new instructions."

PAUSED == "Execution paused. I'm now waiting for new instructions or any updates."

CANCEL_ERROR == "Tool execution cancelled by user"

TOOL_RESULT == "tool result"

Count(seq, content) ==
    Cardinality({i \in 1..Len(seq) : seq[i].content = content})

IsPrefix(p, s) ==
    /\ Len(p) <= Len(s)
    /\ SubSeq(s, 1, Len(p)) = p

-----------------------------------------------------------------------------
(* AgentState: queries and mutators *)

is_waiting_for_input(s) == s.status = "WaitingForInput"

llm_failed(s) == s.status = "LLMFailed"

should_stop(s) == s.status \in {"Completed", "Errored"}

has_waiting_timeout(s) ==
    /\ s.status \in {"WaitingForInput", "LLMFailed"}
    /\ s.waiting_since # -1
    /\ now - s.waiting_since >= WaitQuanta

is_approaching_max_iterations(s, limit) ==
    s.max_iterations - s.iteration < limit

increment_iteration(s) == [s EXCEPT !.iteration = @ + 1]

add_message(s, role, content) ==
    [s EXCEPT !.messages = Append(@, Msg(role, content))]

add_error(s, text) == [s EXCEPT !.errors = Append(@, text)]

add_action(s, action) == [s EXCEPT !.actions = Append(@, action)]

enter_waiting_state(s, failed) ==
    [s EXCEPT !.status = IF failed THEN "LLMFailed" ELSE "WaitingForInput",
              !.waiting_since = now]

resume_from_waiting(s) ==
    [s EXCEPT !.status = "Running", !.waiting_since = -1]

set_completed(s, result) ==
    [s EXCEPT !.final_result = result, !.status = "Completed"]

get_conversation_history(s) == s.messages

\* asyncio.sleep(0.5): one polling quantum goes by
sleep == now' = now + 1

-----------------------------------------------------------------------------
(* The model backend's answers and the content test of _process_iteration *)

ContentChoices == {"", "  ", "I will search."}

\* strip leaving whitespace where it is
StripLeftOut(c) == c

\* str.strip() on the contents the backend returns here
strip(c) == IF c \in {"", "  "} THEN "" ELSE c

Responses ==
    [content : ContentChoices, tool_invocations : 0..MaxBatch]

NoTask == [status |-> "none", n |-> 0, base |-> << >>]

\* results the unit has written into its history so far
Recorded(t, history) == Len(history) - Len(t.base)

-----------------------------------------------------------------------------
(* Init: the agent after BaseAgent.__init__, before agent_loop is called *)

FreshState(budget) ==
    [ task |-> "", messages |-> << >>, iteration |-> 0,
      max_iterations |-> budget, max_iterations_warning_sent |-> FALSE,
      status |-> "Running", final_result |-> None, errors |-> << >>,
      actions |-> << >>, waiting_since |-> -1,
      sandbox_id |-> NoHandle, sandbox_token |-> NoHandle,
      sandbox_info |-> None ]

\* the state record a finished non-interactive run leaves behind
CompletedSnapshot(budget) ==
    [ FreshState(budget) EXCEPT
        !.task = TASK,
        !.messages = << Msg("user", TASK), Msg("assistant", "I will search."),
                        Msg("tool", TOOL_RESULT) >>,
        !.iteration = 1,
        !.status = "Completed",
        !.final_result = Success,
        !.actions = << "tool_invocation" >>,
        !.sandbox_id = "ws", !.sandbox_token = "tok",
        !.sandbox_info = [workspace_id |-> "ws", auth_token |-> "tok"] ]

\* a state record restored with a sandbox token but no workspace yet
TokenSnapshot(budget) ==
    [ FreshState(budget) EXCEPT !.sandbox_token = "old" ]

Init ==
    /\ non_interactive \in BOOLEAN
    /\ sandbox_mode \in BOOLEAN
    /\ near_limit \in {2, 4}
    /\ state \in {FreshState(MaxBudget), CompletedSnapshot(MaxBudget),
                  TokenSnapshot(MaxBudget)}
    \* the toggle is read only when the state holds no sandbox
    /\ state.sandbox_id # NoHandle => ~sandbox_mode
    /\ pc = "init"
    /\ current_task = NoHandle
    /\ tool_task = NoTask
    /\ conversation_history = << >>
    /\ retval = None
    /\ raised = NoHandle
    /\ llm_calls = 0
    /\ events = 0
    /\ llm_failure = None
    /\ last = [kind |-> "constructed"]
    /\ now = 0

-----------------------------------------------------------------------------
(* BaseAgent: the methods agent_loop calls *)

\* SandboxProvisioner.create_sandbox: the records it may answer with; the
\* auth_token is a new one, or the token it was handed
create_sandbox(token) ==
    { [workspace_id |-> "ws", auth_token |-> t] :
        t \in {"tok"} \cup (IF token = NoHandle THEN {} ELSE {token}) }

InitializeSandbox(s, sandbox_info) ==
    IF ~sandbox_mode /\ s.sandbox_id = NoHandle
    THEN [s EXCEPT !.sandbox_id = sandbox_info.workspace_id,
                   !.sandbox_token = sandbox_info.auth_token,
                   !.sandbox_info = sandbox_info]
    ELSE s

InitializeState(s, task) ==
    add_message(IF s.task = "" THEN [s EXCEPT !.task = task] ELSE s,
                "user", task)

\* NearLimitWarning with the assignment of the one-shot flag left out
NearLimitWarningUnflagged(s) ==
    IF /\ is_approaching_max_iterations(s, near_limit)
       /\ ~s.max_iterations_warning_sent
    THEN add_message(s, "user", URGENT)
    ELSE s

NearLimitWarning(s) ==
    IF /\ is_approaching_max_iterations(s, near_limit)
       /\ ~s.max_iterations_warning_sent
    THEN add_message([s EXCEPT !.max_iterations_warning_sent = TRUE],
                     "user", URGENT)
    ELSE s

\* CriticalWarning guarded by the one-shot flag like the near-limit warning
CriticalWarningOneShot(s) ==
    IF s.iteration = s.max_iterations - 3 /\ ~s.max_iterations_warning_sent
    THEN add_message(s, "user", CRITICAL)
    ELSE s

CriticalWarning(s) ==
    IF s.iteration = s.max_iterations - 3
    THEN add_message(s, "user", CRITICAL)
    ELSE s

\* StartIteration with the counter advanced only when no warning is due
StartIterationSkipsCount(s) ==
    CriticalWarning(NearLimitWarning(
        IF s.iteration + 1 = s.max_iterations - 3
        THEN s
        ELSE increment_iteration(s)))

StartIteration(s) ==
    CriticalWarning(NearLimitWarning(increment_iteration(s)))

\* EnterWaitingState without the notification message
EnterWaitingStateNoNotice(s, task_completed, error_occurred, was_cancelled) ==
    enter_waiting_state(s, FALSE)

EnterWaitingState(s, task_completed, error_occurred, was_cancelled) ==
    add_message(enter_waiting_state(s, FALSE), "assistant",
                IF task_completed THEN TASK_COMPLETED
                ELSE IF error_occurred THEN ERROR_OCCURRED
                ELSE IF was_cancelled THEN CANCELLED
                ELSE PAUSED)

\* WaitForInput appending the resuming message on every poll
WaitForInputAnnouncesEachPoll(s) ==
    add_message(IF has_waiting_timeout(s) THEN resume_from_waiting(s) ELSE s,
                "assistant", RESUMING)

WaitForInput(s) ==
    IF has_waiting_timeout(s)
    THEN add_message(resume_from_waiting(s), "assistant", RESUMING)
    ELSE s

\* an error-log entry holding the text m
Err(m) == [text |-> m]

\* the error-log entry of _handle_iteration_error
IterationError(s, e) ==
    [text |-> "Error in iteration", iteration |-> s.iteration,
     error |-> str(e)]

\* HandleIterationError without the add_error call
HandleIterationErrorSilent(s, e) == s

HandleIterationError(s, e) == add_error(s, IterationError(s, e))

\* what _handle_iteration_error returns
HandledIterationError == TRUE

RecordActions(s, n) ==
    [s EXCEPT !.actions = @ \o [i \in 1..n |-> "tool_invocation"]]

-----------------------------------------------------------------------------
(* agent_loop *)

Ended == pc \in {"returned", "raised"}

Return(value) ==
    /\ pc' = "returned"
    /\ retval' = value
    /\ UNCHANGED raised

Raise(e) ==
    /\ pc' = "raised"
    /\ raised' = e
    /\ UNCHANGED retval

Continue ==
    /\ pc' = "loop"
    /\ UNCHANGED << retval, raised >>

\* `final_result or {}`
OrEmpty(result) == IF result = None THEN Empty ELSE result

\* agent_loop is called: _initialize_sandbox_and_state(task)
Initialize ==
    /\ pc = "init"
    /\ \E sandbox_info \in create_sandbox(state.sandbox_token) :
           state' = InitializeState(InitializeSandbox(state, sandbox_info),
                                    TASK)
    /\ last' = [kind |-> "initialized"]
    /\ Continue
    /\ UNCHANGED << now, non_interactive, near_limit, current_task, tool_task,
                    conversation_history, sandbox_mode, llm_calls, events,
                    llm_failure >>

\* a pass that finds the state waiting for input
WaitingPass ==
    /\ pc = "loop"
    /\ is_waiting_for_input(state)
    /\ state' = WaitForInput(state)
    /\ IF has_waiting_timeout(state) THEN UNCHANGED now ELSE sleep
    /\ last' = [kind |-> IF has_waiting_timeout(state) THEN "resumed"
                         ELSE "slept"]
    /\ Continue
    /\ UNCHANGED << non_interactive, near_limit, current_task, tool_task,
                    conversation_history, sandbox_mode, llm_calls, events,
                    llm_failure >>

\* StopPass with the mode test left out: a stop condition leads to the
\* waiting state in both modes
StopPassAlwaysWaits ==
    /\ pc = "loop"
    /\ ~is_waiting_for_input(state)
    /\ should_stop(state)
    /\ last' = [kind |-> "stop"]
    /\ state' = EnterWaitingState(state, FALSE, FALSE, FALSE)
    /\ Continue
    /\ UNCHANGED << now, non_interactive, near_limit, current_task, tool_task,
                    conversation_history, sandbox_mode, llm_calls, events,
                    llm_failure >>

\* a pass that finds a stop condition signalled
StopPass ==
    /\ pc = "loop"
    /\ ~is_waiting_for_input(state)
    /\ should_stop(state)
    /\ last' = [kind |-> "stop"]
    /\ IF non_interactive
       THEN /\ Return(OrEmpty(state.final_result))
            /\ UNCHANGED state
       ELSE /\ state' = EnterWaitingState(state, FALSE, FALSE, FALSE)
            /\ Continue
    /\ UNCHANGED << now, non_interactive, near_limit, current_task, tool_task,
                    conversation_history, sandbox_mode, llm_calls, events,
                    llm_failure >>

\* a pass that finds the LLM-failure flag set
LLMFailedPass ==
    /\ pc = "loop"
    /\ ~is_waiting_for_input(state)
    /\ ~should_stop(state)
    /\ llm_failed(state)
    /\ state' = WaitForInput(state)
    /\ IF has_waiting_timeout(state) THEN UNCHANGED now ELSE sleep
    /\ last' = [kind |-> IF has_waiting_timeout(state) THEN "resumed"
                         ELSE "slept"]
    /\ Continue
    /\ UNCHANGED << non_interactive, near_limit, current_task, tool_task,
                    conversation_history, sandbox_mode, llm_calls, events,
                    llm_failure >>

\* ReachesIteration with the budget enforced
ReachesIterationWithinBudget(s) ==
    /\ ~is_waiting_for_input(s)
    /\ ~should_stop(s)
    /\ ~llm_failed(s)
    /\ s.iteration < s.max_iterations

\* ReachesIteration with the test of the LLM-failure flag left out
ReachesIterationIgnoresFailure(s) ==
    /\ ~is_waiting_for_input(s)
    /\ ~should_stop(s)

\* whether a pass gets as far as the iteration
ReachesIteration(s) ==
    /\ ~is_waiting_for_input(s)
    /\ ~should_stop(s)
    /\ ~llm_failed(s)

\* a pass that reaches the iteration: counter, warnings, llm.generate called
BeginIteration ==
    /\ pc = "loop"
    /\ ReachesIteration(state)
    /\ state.iteration < IterCap
    /\ state' = StartIteration(state)
    /\ pc' = "llm"
    /\ llm_calls' = llm_calls + 1
    /\ last' = [kind |-> "generate"]
    /\ UNCHANGED << now, non_interactive, near_limit, current_task, tool_task,
                    conversation_history, retval, raised, sandbox_mode,
                    events, llm_failure >>

-----------------------------------------------------------------------------
(* How agent_loop goes on after the iteration step, from the state s the   *)
(* step left                                                               *)

\* _process_iteration returned False
OnNoFinish(s) ==
    /\ state' = s
    /\ Continue

\* OnFinish with the mode test left out: a finish signal leads to the
\* waiting state in both modes
OnFinishAlwaysWaits(s) ==
    /\ state' = EnterWaitingState(s, TRUE, FALSE, FALSE)
    /\ Continue

\* _process_iteration returned True
OnFinish(s) ==
    IF non_interactive
    THEN /\ state' = set_completed(s, Success)
         /\ Return(OrEmpty(state'.final_result))
    ELSE /\ state' = EnterWaitingState(s, TRUE, FALSE, FALSE)
         /\ Continue

\* OnCancelled with the mode test left out: the cancellation is absorbed
\* into a waiting state in both modes
OnCancelledAbsorbed(s) ==
    /\ state' = EnterWaitingState(s, FALSE, FALSE, TRUE)
    /\ Continue

\* except asyncio.CancelledError
OnCancelled(s) ==
    IF non_interactive
    THEN /\ state' = s
         /\ Raise("CancelledError")
    ELSE /\ state' = EnterWaitingState(s, FALSE, FALSE, TRUE)
         /\ Continue

\* OnLLMRequestFailed with the `return` of the non-interactive branch lost:
\* the failure is recorded and the loop goes on to the waiting branch
OnLLMRequestFailedNoReturn(s, m) ==
    /\ state' = enter_waiting_state(
                    IF non_interactive
                    THEN set_completed(add_error(s, Err(m)), Failure(m))
                    ELSE add_error(s, Err(m)),
                    TRUE)
    /\ Continue

\* OnLLMRequestFailed with the set_completed call of the non-interactive
\* branch left out
OnLLMRequestFailedUnmarked(s, m) ==
    IF non_interactive
    THEN /\ state' = add_error(s, Err(m))
         /\ Return(Failure(m))
    ELSE /\ state' = enter_waiting_state(add_error(s, Err(m)), TRUE)
         /\ Continue

\* OnLLMRequestFailed with set_completed called before the mode is tested
OnLLMRequestFailedMarksBoth(s, m) ==
    IF non_interactive
    THEN /\ state' = set_completed(add_error(s, Err(m)), Failure(m))
         /\ Return(Failure(m))
    ELSE /\ state' = enter_waiting_state(
                         set_completed(add_error(s, Err(m)), Failure(m)),
                         TRUE)
         /\ Continue

\* except LLMRequestFailedError, its message being m
OnLLMRequestFailed(s, m) ==
    IF non_interactive
    THEN /\ state' = set_completed(add_error(s, Err(m)), Failure(m))
         /\ Return(Failure(m))
    ELSE /\ state' = enter_waiting_state(add_error(s, Err(m)), TRUE)
         /\ Continue

\* except (RuntimeError, ValueError, TypeError) as e
OnRecoverableError(s, e) ==
    IF ~HandledIterationError
    THEN IF non_interactive
         THEN /\ state' = set_completed(HandleIterationError(s, e),
                                        Failure(str(e)))
              /\ Raise(e.class)
         ELSE /\ state' = EnterWaitingState(HandleIterationError(s, e),
                                            FALSE, TRUE, FALSE)
              /\ Continue
    ELSE /\ state' = HandleIterationError(s, e)
         /\ Continue

-----------------------------------------------------------------------------
(* _process_iteration: llm.generate comes back *)

\* the part of an environment's budget an answer takes
Takes(nonempty) ==
    /\ nonempty => events < MaxEvents
    /\ events' = IF nonempty THEN events + 1 ELSE events

\* _execute_actions up to the await of the tool-dispatch task
StartDispatch(s, n) ==
    LET recorded == RecordActions(s, n)
        history  == get_conversation_history(recorded)
    IN  /\ state' = recorded
        /\ conversation_history' = history
        /\ tool_task' = [status |-> "running", n |-> n, base |-> history]
        /\ current_task' = "tool_task"
        /\ pc' = "tool"
        /\ UNCHANGED << retval, raised >>

LLMResponds ==
    /\ pc = "llm"
    /\ \E response \in Responses :
          LET content_stripped == strip(response.content)
          IN  /\ Takes(content_stripped # "")
              /\ IF content_stripped = ""
                 THEN /\ OnNoFinish(add_message(state, "user", CORRECTIVE))
                      /\ last' = [kind |-> "empty"]
                      /\ UNCHANGED << current_task, tool_task,
                                      conversation_history >>
                 ELSE IF response.tool_invocations > 0
                 THEN /\ StartDispatch(
                            add_message(state, "assistant", response.content),
                            response.tool_invocations)
                      /\ last' = [kind |-> "dispatched"]
                 ELSE /\ OnNoFinish(
                            add_message(state, "assistant", response.content))
                      /\ last' = [kind |-> "text"]
                      /\ UNCHANGED << current_task, tool_task,
                                      conversation_history >>
    /\ UNCHANGED << now, non_interactive, near_limit, sandbox_mode, llm_calls,
                    llm_failure >>

\* llm.generate raises LLMRequestFailedError(m)
LLMFails ==
    /\ pc = "llm"
    /\ Takes(TRUE)
    /\ \E m \in FailureMessages :
          /\ OnLLMRequestFailed(state, m)
          /\ llm_failure' = [message |-> m, call |-> llm_calls,
                             iteration |-> state.iteration]
          /\ last' = [kind |-> "llm_failed"]
    /\ UNCHANGED << now, non_interactive, near_limit, current_task, tool_task,
                    conversation_history, sandbox_mode, llm_calls >>

\* llm.generate raises one of the classes caught at line 207
LLMRaisesRecoverable ==
    /\ pc = "llm"
    /\ Takes(TRUE)
    /\ \E e \in RecoverableExceptions : OnRecoverableError(state, e)
    /\ last' = [kind |-> "error"]
    /\ UNCHANGED << now, non_interactive, near_limit, current_task, tool_task,
                    conversation_history, sandbox_mode, llm_calls,
                    llm_failure >>

\* llm.generate raises anything else: agent_loop does not catch it
LLMRaisesUnclassified ==
    /\ pc = "llm"
    /\ Takes(TRUE)
    /\ \E e \in UnclassifiedErrors : Raise(e)
    /\ last' = [kind |-> "fatal"]
    /\ UNCHANGED << now, non_interactive, state, near_limit, current_task,
                    tool_task, conversation_history, sandbox_mode, llm_calls,
                    llm_failure >>

-----------------------------------------------------------------------------
(* The tool-dispatch unit and the rest of _execute_actions *)

\* done() true of a unit that returned only
DoneOnReturnOnly(t) == t.status = "finished"

\* asyncio.Task.done()
done(t) == t.status \in {"finished", "failed", "cancelled"}

\* process_tool_invocations records one invocation's result in its history
ToolProgress ==
    /\ pc = "tool"
    /\ tool_task.status = "running"
    /\ Recorded(tool_task, conversation_history) < tool_task.n
    /\ conversation_history' =
          Append(conversation_history, Msg("tool", TOOL_RESULT))
    /\ last' = [kind |-> "progress"]
    /\ UNCHANGED << now, non_interactive, state, near_limit, pc, current_task,
                    tool_task, retval, raised, sandbox_mode, llm_calls,
                    events, llm_failure >>

\* CommitHistory keeping only what the unit added to its history
CommitHistoryResultsOnly(s, history) ==
    [s EXCEPT !.messages = SubSeq(history, Len(@) + 1, Len(history))]

\* `self.state.messages = conversation_history`
CommitHistory(s, history) == [s EXCEPT !.messages = history]

\* the unit is over and the await gives its flag
ToolReturns ==
    /\ pc = "tool"
    /\ tool_task.status = "running"
    /\ Recorded(tool_task, conversation_history) = tool_task.n
    /\ tool_task' = [tool_task EXCEPT !.status = "finished"]
    /\ current_task' = NoHandle
    /\ \E should_agent_finish \in BOOLEAN :
          LET committed == CommitHistory(state, conversation_history)
          IN  IF should_agent_finish
              THEN /\ OnFinish(set_completed(committed, Success))
                   /\ last' = [kind |-> "finish"]
              ELSE /\ OnNoFinish(committed)
                   /\ last' = [kind |-> "batch"]
    /\ UNCHANGED << now, non_interactive, near_limit, conversation_history,
                    sandbox_mode, llm_calls, events, llm_failure >>

\* the unit raises one of the classes caught at line 207
ToolRaisesRecoverable ==
    /\ pc = "tool"
    /\ tool_task.status = "running"
    /\ tool_task' = [tool_task EXCEPT !.status = "failed"]
    /\ \E e \in RecoverableExceptions : OnRecoverableError(state, e)
    /\ last' = [kind |-> "error"]
    /\ UNCHANGED << now, non_interactive, near_limit, current_task,
                    conversation_history, sandbox_mode, llm_calls, events,
                    llm_failure >>

\* CancelCurrentExecution with the done() test left out
CancelCurrentExecutionAnyTask ==
    IF current_task # NoHandle
    THEN /\ tool_task' = [tool_task EXCEPT !.status = "cancelling"]
         /\ current_task' = NoHandle
         /\ last' = [kind |-> "cancel"]
         /\ UNCHANGED << now, non_interactive, state, near_limit, pc,
                         conversation_history, retval, raised, sandbox_mode,
                         llm_calls, events, llm_failure >>
    ELSE UNCHANGED vars

\* cancel_current_execution, called from outside the loop
CancelCurrentExecution ==
    IF current_task # NoHandle /\ ~done(tool_task)
    THEN /\ tool_task' = [tool_task EXCEPT !.status = "cancelling"]
         /\ current_task' = NoHandle
         /\ last' = [kind |-> "cancel"]
         /\ UNCHANGED << now, non_interactive, state, near_limit, pc,
                         conversation_history, retval, raised, sandbox_mode,
                         llm_calls, events, llm_failure >>
    ELSE UNCHANGED vars

\* CancelledInUnit with the history assignment of line 348 also made on the
\* cancellation path
CancelledInUnitCommits(s, history) ==
    add_error(CommitHistory(s, history), Err(CANCEL_ERROR))

\* the except branch of _execute_actions
CancelledInUnit(s, history) == add_error(s, Err(CANCEL_ERROR))

\* the await of the cancelled unit raises CancelledError, which
\* _execute_actions records and raises again
ToolCancelled ==
    /\ pc = "tool"
    /\ tool_task.status = "cancelling"
    /\ tool_task' = [tool_task EXCEPT !.status = "cancelled"]
    /\ current_task' = NoHandle
    /\ state' = CancelledInUnit(state, conversation_history)
    /\ pc' = "cancelled"
    /\ last' = [kind |-> "cancelled"]
    /\ UNCHANGED << now, non_interactive, near_limit, conversation_history,
                    retval, raised, sandbox_mode, llm_calls, events,
                    llm_failure >>

\* the CancelledError reaches agent_loop
CancellationObserved ==
    /\ pc = "cancelled"
    /\ OnCancelled(state)
    /\ UNCHANGED << now, non_interactive, near_limit, current_task, tool_task,
                    conversation_history, sandbox_mode, llm_calls, events,
                    llm_failure, last >>

-----------------------------------------------------------------------------

Next ==
    \/ Initialize
    \/ WaitingPass
    \/ StopPass
    \/ LLMFailedPass
    \/ BeginIteration
    \/ LLMResponds
    \/ LLMFails
    \/ LLMRaisesRecoverable
    \/ LLMRaisesUnclassified
    \/ ToolProgress
    \/ ToolReturns
    \/ ToolRaisesRecoverable
    \/ CancelCurrentExecution
    \/ ToolCancelled
    \/ CancellationObserved

Spec == Init /\ [][Next]_vars

-----------------------------------------------------------------------------
(* The loop past IterCap.  The passes go on as before; the counter and the  *)
(* history they write are no longer followed, so that a run that never     *)
(* ends is a cycle of the model.                                           *)

\* a pass past IterCap reaches the iteration and calls llm.generate
BeyondHorizonCall ==
    /\ pc = "loop"
    /\ ReachesIteration(state)
    /\ state.iteration = IterCap
    /\ pc' = "horizon"
    /\ UNCHANGED << now, non_interactive, state, near_limit, current_task,
                    tool_task, conversation_history, retval, raised,
                    sandbox_mode, llm_calls, events, llm_failure, last >>

\* llm.generate gives empty content past IterCap: _process_iteration
\* returns False and the loop goes to its next pass
BeyondHorizonEmpty ==
    /\ pc = "horizon"
    /\ pc' = "loop"
    /\ UNCHANGED << now, non_interactive, state, near_limit, current_task,
                    tool_task, conversation_history, retval, raised,
                    sandbox_mode, llm_calls, events, llm_failure, last >>

\* the steps of the coroutine, the model backend and the tool-dispatch unit;
\* cancel_current_execution is the caller's and is left out here
Progress ==
    \/ Initialize
    \/ WaitingPass
    \/ StopPass
    \/ LLMFailedPass
    \/ BeginIteration
    \/ LLMResponds
    \/ LLMFails
    \/ LLMRaisesRecoverable
    \/ LLMRaisesUnclassified
    \/ ToolProgress
    \/ ToolReturns
    \/ ToolRaisesRecoverable
    \/ ToolCancelled
    \/ CancellationObserved
    \/ BeyondHorizonCall
    \/ BeyondHorizonEmpty

LiveNext ==
    \/ Next
    \/ BeyondHorizonCall
    \/ BeyondHorizonEmpty

\* the event loop runs the coroutine whenever it can run, and every call to
\* the model backend and every tool-dispatch unit comes to an end
LiveSpec == Init /\ [][LiveNext]_vars /\ WF_vars(Progress)

-----------------------------------------------------------------------------
(* Claims *)

\* C1: in non-interactive mode a failed llm.generate call with message m
\* makes agent_loop return {success: false, error: m} in the pass of the
\* failing call, and that call stays the last llm.generate call of the run.
C1_FailureReturnsAtOnce ==
    (non_interactive /\ llm_failure # None) =>
        /\ pc = "returned"
        /\ retval = Failure(llm_failure.message)
        /\ llm_calls = llm_failure.call
        /\ state.iteration = llm_failure.iteration

\* the scenario of C1: "rate limited" on iteration 2
C1_Witness ==
    /\ non_interactive
    /\ llm_failure # None
    /\ llm_failure.message = "rate limited"
    /\ llm_failure.iteration = 2
    /\ pc = "returned"
    /\ retval = [success |-> FALSE, error |-> "rate limited"]

\* C2, as claimed: every non-interactive run that has ended, by a return or
\* by an exception, has a non-null final_result whose success field is true
\* exactly when the run ended Completed with success.
C2_EveryEndHasResult ==
    (non_interactive /\ Ended) =>
        /\ state.final_result # None
        /\ state.final_result.success
              <=> (state.status = "Completed" /\ retval = Success)

\* C2, amended: a non-interactive run that returns after a finish signal or
\* a model-backend failure has status Completed and a non-null final_result,
\* which is what it returns, with success true exactly after the finish
\* signal; a run that ends by raising leaves final_result null.
C2_ReturnsHaveResult ==
    non_interactive =>
        /\ (pc = "returned" /\ last.kind \in {"finish", "llm_failed"}) =>
              /\ state.final_result # None
              /\ state.status = "Completed"
              /\ retval = state.final_result
              /\ state.final_result.success <=> last.kind = "finish"
        /\ pc = "raised" =>
              /\ state.final_result = None
              /\ state.status = "Running"

\* a non-interactive run returned the success payload after a finish signal
C2_Witness ==
    /\ non_interactive
    /\ pc = "returned"
    /\ last.kind = "finish"
    /\ state.status = "Completed"
    /\ state.final_result = Success

\* C3, as claimed: in every state final_result is non-null exactly when
\* status is Completed.
C3_ResultIffCompleted ==
    (state.final_result # None) <=> (state.status = "Completed")

\* C3, amended: whenever status is Completed final_result is non-null, and
\* final_result changes only where set_completed is called (on a finish
\* signal in either mode, on a model-backend failure in non-interactive
\* mode), always to a non-null value; leaving Completed does not clear it.
C3_CompletedHasResult ==
    /\ [](state.status = "Completed" => state.final_result # None)
    /\ [][state'.final_result # state.final_result =>
            /\ state'.final_result # None
            /\ \/ last'.kind = "finish"
               \/ non_interactive /\ last'.kind = "llm_failed"]_vars

\* an interactive agent waits after a finish signal, its final_result kept
C3_Witness ==
    /\ ~non_interactive
    /\ last.kind = "finish"
    /\ state.status = "WaitingForInput"
    /\ state.final_result = Success

ToolMessages(messages) == SelectSeq(messages, LAMBDA m : m.role = "tool")

CancelRecords(s) ==
    Cardinality({i \in 1..Len(s.errors) : s.errors[i] = Err(CANCEL_ERROR)})

C5_CancellationRoutedByMode ==
    /\ [][pc = "cancelled" =>
            IF non_interactive
            THEN /\ pc' = "raised"
                 /\ raised' = "CancelledError"
                 /\ state' = state
            ELSE /\ pc' = "loop"
                 /\ raised' = NoHandle
                 /\ state'.status = "WaitingForInput"
                 /\ state'.messages =
                       Append(state.messages, Msg("assistant", CANCELLED))]_vars
    /\ [](raised = "CancelledError" => non_interactive /\ pc = "raised")

\* an interactive agent was cancelled, waited, and is running again
C5_Witness ==
    /\ ~non_interactive
    /\ CancelRecords(state) = 1
    /\ Count(state.messages, CANCELLED) = 1
    /\ ToolMessages(state.messages) = << >>
    /\ last.kind = "resumed"
    /\ state.status = "Running"
    /\ pc = "loop"

\* C6: the iteration counter never decreases; it grows by exactly one in
\* each pass that reaches the model call and is unchanged by every other
\* step, the wait/resume passes and the stop-condition pass among them.
C6_IterationCounter ==
    [][/\ state'.iteration >= state.iteration
       /\ IF pc = "loop" /\ pc' = "llm"
          THEN state'.iteration = state.iteration + 1
          ELSE state'.iteration = state.iteration]_vars

\* an agent resumed after the waiting timeout with its count kept
C6_Witness ==
    /\ last.kind = "resumed"
    /\ state.iteration >= 2
    /\ state.status = "Running"

\* C7: the URGENT near-limit warning is in the conversation at most once,
\* and max_iterations_warning_sent, once true, stays true.
C7_UrgentAtMostOnce ==
    /\ [](Count(state.messages, URGENT) <= 1)
    /\ [][state.max_iterations_warning_sent =>
            state'.max_iterations_warning_sent]_vars

\* the warning was given before a wait/resume cycle and the loop went on
\* iterating past the budget after it
C7_Witness ==
    /\ Count(state.messages, URGENT) = 1
    /\ Count(state.messages, RESUMING) = 1
    /\ state.max_iterations_warning_sent
    /\ state.iteration > state.max_iterations

\* C8: the CRITICAL warning is appended in exactly the passes whose
\* iteration, once incremented, equals max_iterations - 3, whatever the
\* one-shot flag holds; so the conversation holds it exactly once from that
\* iteration on (from iteration 2 with max_iterations = 5).
C8_CriticalAtExactIteration ==
    /\ [][Count(state'.messages, CRITICAL) - Count(state.messages, CRITICAL)
            = IF /\ pc = "loop" /\ pc' = "llm"
                 /\ state'.iteration = state.max_iterations - 3
              THEN 1 ELSE 0]_vars
    /\ [](Count(state.messages, CRITICAL)
            = IF state.iteration >= state.max_iterations - 3 THEN 1 ELSE 0)

\* max_iterations = 5, a model that only returned empty content: the pass of
\* iteration 2 has appended the critical warning with the flag already set
C8_Witness ==
    /\ state.max_iterations = 5
    /\ events = 0
    /\ state.iteration = 2
    /\ state.max_iterations_warning_sent
    /\ Count(state.messages, CRITICAL) = 1
    /\ state.messages[Len(state.messages)] = Msg("user", CRITICAL)

\* C9: the budget is advisory: a running agent whose iteration has reached
\* max_iterations is neither stopped nor put to wait by the next pass, which
\* increments the counter and calls the model backend again.
C9_BudgetIsAdvisory ==
    (/\ pc = "loop"
     /\ state.status = "Running"
     /\ state.iteration >= state.max_iterations
     /\ state.iteration < IterCap) =>
        /\ ENABLED BeginIteration
        /\ ~ENABLED StopPass
        /\ ~ENABLED WaitingPass
        /\ ~ENABLED LLMFailedPass

\* max_iterations = 5, a model that only returns empty content: the model
\* backend is called in iteration 6
C9_Witness ==
    /\ state.max_iterations = 5
    /\ events = 0
    /\ state.iteration = 6
    /\ pc = "llm"
    /\ llm_calls = 6
    /\ state.status = "Running"

\* C10, as claimed: every non-interactive run of agent_loop eventually
\* ends, by a return or by an exception.
C10_EveryRunEnds == non_interactive => <>Ended

\* C10, amended: a non-interactive run ends when, and only when, a tool
\* batch signals finish, the model backend fails, a stop condition is found
\* at the start of a pass, or a cancellation or an uncaught exception is
\* raised.  Until then the loop never waits and every pass reaches another
\* model call, whatever the iteration count, so a run need not end.
C10_EndsOnlyByEvent ==
    non_interactive =>
        /\ state.status \notin {"WaitingForInput", "LLMFailed"}
        /\ Ended =>
              last.kind \in {"finish", "llm_failed", "stop", "cancelled",
                             "fatal"}
        /\ last.kind \in {"finish", "llm_failed", "stop", "fatal"} => Ended
        /\ last.kind = "cancelled" => pc \in {"cancelled", "raised"}
        /\ pc = "loop" =>
              ENABLED (StopPass \/ BeginIteration \/ BeyondHorizonCall)

\* a non-interactive run whose model only returned empty content is past
\* its budget and past IterCap, and calls the model backend once more
C10_Witness ==
    /\ non_interactive
    /\ events = 0
    /\ state.iteration > state.max_iterations
    /\ pc = "horizon"

-----------------------------------------------------------------------------
(* Steps of the loop the claims below speak about *)

\* the step in which a tool batch gave the finish signal
FinishStep == pc = "tool" /\ last'.kind = "finish"

\* the step in which a pass found a stop condition
StopStep == pc = "loop" /\ last'.kind = "stop"

\* the step in which agent_loop catches the CancelledError
CancellationStep == pc = "cancelled" /\ pc' # "cancelled"

\* the step in which agent_loop catches LLMRequestFailedError
LLMFailureStep == pc = "llm" /\ last'.kind = "llm_failed"

\* the step in which agent_loop catches a RuntimeError, ValueError or
\* TypeError
RecoverableErrorStep == pc \in {"llm", "tool"} /\ last'.kind = "error"

Waiting(s) == s.status \in {"WaitingForInput", "LLMFailed"}

-----------------------------------------------------------------------------
\* C11, as claimed: in interactive mode agent_loop never returns; a finish
\* signal, a stop condition, a cancellation, a model-backend failure and a
\* recoverable error each lead to a waiting state and to another pass.
C11_InteractiveAlwaysWaits ==
    [][~non_interactive =>
          /\ pc' # "returned"
          /\ (FinishStep \/ StopStep \/ CancellationStep \/ LLMFailureStep
                \/ RecoverableErrorStep)
                => Waiting(state') /\ pc' = "loop"]_vars

-----------------------------------------------------------------------------
\* C12, as claimed: a RuntimeError, ValueError or TypeError raised during
\* the iteration step marks the result failed and is raised to the caller
\* in non-interactive mode, and leads to the waiting state with the "error
\* occurred" notification in interactive mode.
C12_RecoverableErrorEndsPass ==
    [][RecoverableErrorStep =>
          IF non_interactive
          THEN /\ state'.final_result
                     \in {Failure(str(e)) : e \in RecoverableExceptions}
               /\ state'.status = "Completed"
               /\ pc' = "raised"
          ELSE /\ state'.status = "WaitingForInput"
               /\ state'.messages # << >>
               /\ state'.messages[Len(state'.messages)]
                     = Msg("assistant", ERROR_OCCURRED)]_vars

-----------------------------------------------------------------------------
\* C13, as claimed: Completed is terminal in both modes: once the state is
\* marked Completed no later step moves its status to another one.
C13_CompletedIsTerminal ==
    [][state.status = "Completed" => state'.status = "Completed"]_vars

\* C13, amended: in non-interactive mode Completed is terminal: a state
\* marked Completed stays Completed, and the step that marks it ends the
\* run.  In interactive mode Completed is not terminal: the stop check of
\* the next pass moves a Completed state to WaitingForInput, keeping its
\* final_result, and a finish signal marks the state completed and moves it
\* to WaitingForInput in the same step.
C13_CompletedTerminalWhenNonInteractive ==
    [][IF non_interactive
       THEN /\ state.status = "Completed" => state'.status = "Completed"
            /\ state'.final_result # state.final_result
                  => state'.status = "Completed" /\ pc' = "returned"
       ELSE /\ state.status = "Completed"
                  => /\ state'.status \in {"Completed", "WaitingForInput"}
                     /\ state'.final_result = state.final_result
            /\ FinishStep
                  => /\ state'.status = "WaitingForInput"
                     /\ state'.final_result = Success]_vars

\* an interactive agent restored from a Completed state has waited, timed
\* out and is Running again, its final_result still there
C13_Witness ==
    /\ ~non_interactive
    /\ state.final_result = Success
    /\ state.status = "Running"
    /\ state.iteration >= 2
    /\ Count(state.messages, PAUSED) = 1

-----------------------------------------------------------------------------
\* C14: when a tool batch gives the finish signal in interactive mode, the
\* step leaves the state waiting, with the history the unit produced
\* followed by the "Task completed" notification as an assistant message,
\* and with final_result equal to {success: true}.
C14_InteractiveFinishWaits ==
    [][(~non_interactive /\ FinishStep) =>
          /\ state'.status = "WaitingForInput"
          /\ state'.messages
                = Append(conversation_history,
                         Msg("assistant", TASK_COMPLETED))
          /\ state'.final_result = Success
          /\ pc' = "loop"]_vars

\* an interactive agent has just got the finish signal of a batch of
\* MaxBatch invocations
C14_Witness ==
    /\ ~non_interactive
    /\ last.kind = "finish"
    /\ tool_task.n = MaxBatch
    /\ state.messages[Len(state.messages)] = Msg("assistant", TASK_COMPLETED)
    /\ Len(ToolMessages(state.messages)) = MaxBatch

-----------------------------------------------------------------------------
SandboxHandles(s) == << s.sandbox_id, s.sandbox_token, s.sandbox_info >>

\* C15, as claimed: sandbox_id, sandbox_token and sandbox_info are set
\* together, in the bootstrap step only, and no step replaces a value of any
\* of the three that was there before.
C15_SandboxSetOnceTogether ==
    [][/\ state.sandbox_id # NoHandle
             => state'.sandbox_id = state.sandbox_id
       /\ state.sandbox_token # NoHandle
             => state'.sandbox_token = state.sandbox_token
       /\ state.sandbox_info # None
             => state'.sandbox_info = state.sandbox_info
       /\ SandboxHandles(state') # SandboxHandles(state)
             => /\ pc = "init"
                /\ state'.sandbox_id # NoHandle
                /\ state'.sandbox_token # NoHandle
                /\ state'.sandbox_info # None]_vars

-----------------------------------------------------------------------------
\* C16, as claimed: the bootstrap step appends the task as a user message
\* only when the history does not hold it yet: a history that already holds
\* the task message is left as it is, and on an empty history the task
\* becomes message number one.
C16_TaskRecordedOnce ==
    [][pc = "init" =>
          IF Count(state.messages, TASK) > 0
          THEN state'.messages = state.messages
          ELSE state'.messages = << Msg("user", TASK) >>]_vars

-----------------------------------------------------------------------------
InFlight(t) == t.status \in {"running", "cancelling"}

\* C17: at most one tool-dispatch unit is in flight: a unit is in flight
\* only while the loop awaits it, so no other one is started meanwhile.  A
\* call of cancel_current_execution changes something only when
\* _current_task holds a unit that has not finished, and then it changes
\* nothing but that unit and the handle: called with no handle, or with the
\* handle of a finished unit, it leaves every variable as it was.
C17_CancelOnlyUnitInFlight ==
    /\ InFlight(tool_task) => pc = "tool"
    /\ current_task # NoHandle => tool_task # NoTask
    /\ ENABLED (CancelCurrentExecution /\ vars' # vars)
          => current_task = "tool_task" /\ tool_task.status = "running"
    /\ ~ENABLED (CancelCurrentExecution
                   /\ << state, pc, retval, raised >>'
                         # << state, pc, retval, raised >>)

\* the loop is at its head while _current_task still holds a unit that
\* ended by an exception
C17_Witness ==
    /\ pc = "loop"
    /\ current_task = "tool_task"
    /\ tool_task.status = "failed"
    /\ Len(state.errors) = 1

-----------------------------------------------------------------------------
LastError(s) == s.errors[Len(s.errors)]

\* C18: every failure the loop intercepts is appended to the error log
\* before the status transition, return or raise it causes, in both modes:
\* the step that catches a model-backend failure or a recoverable error
\* appends its description; the step in which the cancelled unit raises
\* appends the cancellation entry and leaves the status alone, and the
\* step in which agent_loop then catches the cancellation finds that entry
\* last in the log.
C18_FailureLoggedFirst ==
    [][/\ LLMFailureStep
             => state'.errors
                   = Append(state.errors, Err(llm_failure'.message))
       /\ RecoverableErrorStep
             => /\ Len(state'.errors) = Len(state.errors) + 1
                /\ \E e \in RecoverableExceptions :
                      LastError(state') = IterationError(state, e)
       /\ (pc = "tool" /\ pc' = "cancelled")
             => /\ state'.errors = Append(state.errors, Err(CANCEL_ERROR))
                /\ state'.status = state.status
       /\ CancellationStep
             => /\ state'.errors = state.errors
                /\ state.errors # << >>
                /\ LastError(state) = Err(CANCEL_ERROR)]_vars

\* a non-interactive run has logged a recoverable error of its second
\* iteration and goes on
C18_Witness ==
    /\ non_interactive
    /\ last.kind = "error"
    /\ state.errors # << >>
    /\ \E e \in RecoverableExceptions :
          LastError(state) = [IterationError(state, e) EXCEPT !.iteration = 2]
    /\ pc = "loop"

-----------------------------------------------------------------------------
\* C19: the length of state.messages never decreases: every step leaves a
\* history that has the one before the step as a prefix, and the step that
\* commits a tool dispatch leaves the unit's history, which has the
\* pre-dispatch history as a prefix.
C19_HistoryOnlyGrows ==
    [][/\ Len(state'.messages) >= Len(state.messages)
       /\ IsPrefix(state.messages, state'.messages)
       /\ (pc = "tool" /\ last'.kind \in {"finish", "batch"})
             => /\ IsPrefix(tool_task.base, conversation_history)
                /\ IsPrefix(conversation_history, state'.messages)
                /\ tool_task.base = state.messages]_vars

\* a dispatch of MaxBatch invocations has been committed without a finish
\* signal: the history is the unit's, MaxBatch messages longer than before
C19_Witness ==
    /\ last.kind = "batch"
    /\ state.messages = conversation_history
    /\ Len(state.messages) = Len(tool_task.base) + MaxBatch

-----------------------------------------------------------------------------
\* a pass of the loop that finds the state waiting and calls _wait_for_input
WaitPassStep ==
    pc = "loop" /\ Waiting(state) /\ last'.kind \in {"resumed", "slept"}

\* C20: a pass that finds the state waiting with the deadline elapsed sets
\* the status to Running, clears the deadline and appends exactly one
\* assistant "resuming" message, leaving iteration, errors, actions and
\* every other field as they were; a pass that finds the deadline not yet
\* elapsed leaves the whole state record as it was and lets one polling
\* quantum go by.
C20_WaitPassFrame ==
    [][WaitPassStep =>
          /\ pc' = "loop"
          /\ IF has_waiting_timeout(state)
             THEN /\ state' = [state EXCEPT
                                 !.status = "Running",
                                 !.waiting_since = -1,
                                 !.messages =
                                     Append(@, Msg("assistant", RESUMING))]
                  /\ now' = now
             ELSE /\ state' = state
                  /\ now' = now + 1]_vars

\* an interactive agent that waited after a model-backend failure has timed
\* out and is Running again, the failure still in its error log
C20_Witness ==
    /\ ~non_interactive
    /\ last.kind = "resumed"
    /\ state.status = "Running"
    /\ state.errors # << >>
    /\ Count(state.messages, RESUMING) = 1
    /\ now - WaitQuanta >= 0

-----------------------------------------------------------------------------
\* the contents that are empty or whitespace only
BlankContents == {"", "  "}

\* the step in which _process_iteration finds the content empty
EmptyResponseStep == pc = "llm" /\ last'.kind = "empty"

\* C21: in both modes, a pass whose model response is empty or whitespace
\* only appends exactly one corrective user message and changes nothing
\* else in the state record: no assistant turn, no action, no finish, the
\* iteration counted for the pass kept; it starts no tool-dispatch unit and
\* goes back to the loop head.  No step that handles a model response
\* records an assistant turn of blank content, and a unit is started only
\* after an assistant turn was recorded.
C21_EmptyResponse ==
    [][/\ EmptyResponseStep
             => /\ state' = add_message(state, "user", CORRECTIVE)
                /\ state.iteration >= 1
                /\ tool_task' = tool_task
                /\ current_task' = current_task
                /\ conversation_history' = conversation_history
                /\ pc' = "loop"
       /\ pc = "llm"
             => \A i \in (Len(state.messages) + 1)..Len(state'.messages) :
                   state'.messages[i].role = "assistant"
                      => state'.messages[i].content \notin BlankContents
       /\ (pc = "llm" /\ pc' = "tool")
             => /\ Len(state'.messages) = Len(state.messages) + 1
                /\ state'.messages[Len(state'.messages)].role = "assistant"]_vars

\* the first response of a run was empty: the history is the task and the
\* corrective message, no action is recorded and no unit was ever started
C21_Witness ==
    /\ last.kind = "empty"
    /\ state.messages = << Msg("user", TASK), Msg("user", CORRECTIVE) >>
    /\ state.actions = << >>
    /\ state.iteration = 1
    /\ tool_task = NoTask
    /\ pc = "loop"

-----------------------------------------------------------------------------
\* C22: the model backend is called, and the iteration counter advanced,
\* only by a pass that starts at the loop head with the state not waiting
\* for input, no stop condition signalled and the LLM-failure flag clear,
\* and such a step does both, once.  A pass that finds one of the three
\* conditions leaves the call count and the counter alone.  So while a
\* model call or a tool dispatch is under way the status is Running.
C22_ModelCalledOnlyWhenRunning ==
    [][/\ (llm_calls' # llm_calls \/ state'.iteration # state.iteration)
             => /\ pc = "loop"
                /\ ~is_waiting_for_input(state)
                /\ ~should_stop(state)
                /\ ~llm_failed(state)
                /\ llm_calls' = llm_calls + 1
                /\ state'.iteration = state.iteration + 1
                /\ pc' = "llm"
       /\ (pc = "loop" /\ (Waiting(state) \/ should_stop(state)))
             => /\ pc' # "llm"
                /\ llm_calls' = llm_calls
                /\ state'.iteration = state.iteration
       /\ pc' \in {"llm", "tool"} => state'.status = "Running"]_vars

\* an interactive agent whose first model call failed has waited, timed
\* out, and is in its second model call
C22_Witness ==
    /\ ~non_interactive
    /\ pc = "llm"
    /\ llm_failure # None
    /\ llm_calls > llm_failure.call
    /\ Count(state.messages, RESUMING) = 1

-----------------------------------------------------------------------------
\* a unit that is over: it returned, raised, or was cancelled
Over(t) == t.status \in {"finished", "failed", "cancelled"}

\* C23: whenever the loop is not awaiting a tool-dispatch unit,
\* _current_task is empty or holds a unit that is over, whether the last
\* unit returned, was cancelled or raised another exception; so a call of
\* cancel_current_execution at such a point changes nothing.
C23_HandleEmptyOrFinished ==
    pc # "tool" =>
        /\ current_task = NoHandle \/ Over(tool_task)
        /\ tool_task.status \notin {"running", "cancelling"}
        /\ ~ENABLED (CancelCurrentExecution /\ vars' # vars)

\* the loop is in a model call while _current_task still holds the unit
\* of an earlier pass that ended by an exception
C23_Witness ==
    /\ pc = "llm"
    /\ current_task = "tool_task"
    /\ tool_task.status = "failed"
    /\ last.kind = "generate"

=============================================================================
